---- MODULE Spec2Model ----
(***************************************************************************)
(* Supermodel: a bookshelf base model with schema validation on save and   *)
(* secure password hashing.  The model follows the module with a           *)
(* configurable digest column and configurable bcrypt rounds               *)
(* (src/unnamed/part_000, lines 304-647).  One model instance of one model *)
(* class is followed through construction, set, direct validateSave calls  *)
(* and the save lifecycle (the ordered "saving" handlers, then the write). *)
(***************************************************************************)
EXTENDS Integers, Sequences, FiniteSets, TLC

\* ------------------------------------------------------------------ bounds
MaxSaves == 2
MaxOps == 1
MaxCallers == 2

\* ------------------------------------------------------------------ values
\* A JavaScript value: its type tag t, its text s, its number n, and, for a
\* bcrypt digest (a string), the nonce of the salt it was made with (salt >= 1).
Undefined == [t |-> "undefined", s |-> "", n |-> 0, salt |-> 0]
Null == [t |-> "null", s |-> "", n |-> 0, salt |-> 0]
Str(x) == [t |-> "string", s |-> x, n |-> 0, salt |-> 0]
Num(k) == [t |-> "number", s |-> "", n |-> k, salt |-> 0]
DateOf(x) == [t |-> "date", s |-> x, n |-> 0, salt |-> 0]

IsString(v) == v.t = "string"
IsDigest(v) == v.t = "string" /\ v.salt >= 1

\* The empty attribute mapping, and the mapping f overridden by g (xtend / set).
Empty == [k \in {} |-> Undefined]
Extend(f, g) == g @@ f
Has(f, k) == k \in DOMAIN f

DEFAULT_PASSWORD_DIGEST_FIELD == "passwordDigest"
DEFAULT_SALT_ROUNDS == 12

\* isEmpty without the test of the length.
isEmptyNullish(str) == str = Undefined \/ str = Null

\* isEmpty(str): undefined, null, or a value whose string coercion has length 0.
\* Of the values of this model only the string '' coerces to the empty string.
isEmpty(str) ==
  IF str = Undefined \/ str = Null THEN TRUE
  ELSE str.t = "string" /\ str.s = ""

\* genSalt with a fixed salt.
genSaltFixed(rounds, nonce) ==
  [cost |-> IF rounds < 4 THEN 4 ELSE IF rounds > 31 THEN 31 ELSE rounds,
   nonce |-> 1]

\* bcrypt.genSalt(rounds): rounds || 10, then clamped to 4..31; nonce is the
\* random part of the salt.
genSalt(rounds, nonce) ==
  LET r0 == IF rounds = 0 THEN 10 ELSE rounds
      r1 == IF r0 < 4 THEN 4 ELSE IF r0 > 31 THEN 31 ELSE r0
  IN [cost |-> r1, nonce |-> nonce]

\* bcrypt.hash(value, salt) for a string value: the digest string.
bcryptHash(value, salt) ==
  [t |-> "string", s |-> value.s, n |-> salt.cost, salt |-> salt.nonce]

\* hash without the test for null: null is empty, and resolves undefined.
hashNullAsEmpty(value, rounds, nonce) ==
  IF isEmpty(value) THEN [rejected |-> FALSE, value |-> Undefined]
  ELSE IF ~IsString(value) THEN [rejected |-> TRUE, value |-> Undefined]
  ELSE [rejected |-> FALSE, value |-> bcryptHash(value, genSalt(rounds, nonce))]

\* hash that never rejects: a value bcrypt refuses resolves undefined.
hashNeverRejects(value, rounds, nonce) ==
  IF value = Null THEN [rejected |-> FALSE, value |-> Null]
  ELSE IF isEmpty(value) \/ ~IsString(value)
    THEN [rejected |-> FALSE, value |-> Undefined]
  ELSE [rejected |-> FALSE, value |-> bcryptHash(value, genSalt(rounds, nonce))]

\* hash(value, rounds): what the promise settles to.  null -> null; an empty
\* value -> undefined; a string -> its salted digest; any other value makes
\* bcrypt.hash reject ("Illegal arguments").
hash(value, rounds, nonce) ==
  IF value = Null THEN [rejected |-> FALSE, value |-> Null]
  ELSE IF isEmpty(value) THEN [rejected |-> FALSE, value |-> Undefined]
  ELSE IF ~IsString(value) THEN [rejected |-> TRUE, value |-> Undefined]
  ELSE [rejected |-> FALSE, value |-> bcryptHash(value, genSalt(rounds, nonce))]

\* passwordDigestField(model): the custom column when hasSecurePassword is a
\* string, the default column otherwise.  hasSecurePassword is Str(name) or
\* one of the booleans below.
False == [t |-> "boolean", s |-> "false", n |-> 0, salt |-> 0]
True == [t |-> "boolean", s |-> "true", n |-> 0, salt |-> 0]
Truthy(v) == v # False /\ v # Undefined /\ v # Null /\ v # Str("") /\ v # Num(0)

\* passwordDigestField that ignores the class's column.
passwordDigestFieldDefault(secure) == DEFAULT_PASSWORD_DIGEST_FIELD

passwordDigestField(secure) ==
  IF IsString(secure) THEN secure.s ELSE DEFAULT_PASSWORD_DIGEST_FIELD

\* bcryptRounds(model): the class's bcryptRounds when it is an integer number,
\* the default otherwise.
bcryptRounds(rounds) ==
  IF rounds.t = "number" THEN rounds.n ELSE DEFAULT_SALT_ROUNDS

\* ------------------------------------------------------------------ schema
\* A Joi key: its name, base type ("any", "string", "date"), presence flag,
\* the values allowed explicitly (valid(...) / allow(...)), whether only those
\* are allowed (valid(...)), and its default (Undefined when it has none).
Key(k, type, required, only, valids, def) ==
  [key |-> k, type |-> type, required |-> required, only |-> only,
   valids |-> valids, def |-> def]

\* The schemas the model classes declare: firstName one of three words and
\* required, lastName a nullable string; and the extended Joi object, with a
\* defaulted lastName.
CrudSchema ==
  << Key("firstName", "string", TRUE, TRUE,
         {Str("hello"), Str("goodbye"), Str("yo")}, Undefined),
     Key("lastName", "string", FALSE, FALSE, {Null}, Undefined) >>
ExtendedSchema ==
  << Key("firstName", "string", FALSE, TRUE,
         {Str("hello"), Str("goodbye")}, Undefined),
     Key("lastName", "string", FALSE, FALSE, {}, Str("world")) >>

\* A schema that declares a constraint of its own for id: a required string.
IdSchema ==
  << Key("id", "string", TRUE, FALSE, {}, Undefined),
     Key("firstName", "string", FALSE, FALSE, {}, Undefined) >>

\* baseValidation of the constructor: id, createdAt and updatedAt, optional.
baseValidation ==
  << Key("id", "any", FALSE, FALSE, {}, Undefined),
     Key("createdAt", "date", FALSE, FALSE, {}, Undefined),
     Key("updatedAt", "date", FALSE, FALSE, {}, Undefined) >>

SchemaKeys(schema) == {schema[i].key : i \in 1..Len(schema)}

\* schema.keys(extra): the children of schema whose key extra does not name,
\* followed by the children of extra (a key named by both is replaced).
keys(schema, extra) ==
  SelectSeq(schema, LAMBDA c : c.key \notin SchemaKeys(extra)) \o extra

\* optionalKeys that relaxes nothing.
optionalKeysKept(schema, names) == schema

\* schema.optionalKeys(names): the named children made optional.
optionalKeys(schema, names) ==
  [i \in 1..Len(schema) |->
     IF schema[i].key \in names
     THEN [schema[i] EXCEPT !.required = FALSE] ELSE schema[i]]

\* Strings that Date can parse (Joi.date() converts them to a Date).
DateStrings == {"2020-01-01"}

\* Joi's base type check with conversion: [err, value].
JoiBase(type, v) ==
  CASE type = "any" -> [err |-> FALSE, value |-> v]
    [] type = "string" ->
         [err |-> ~(v.t = "string" /\ v.s # ""), value |-> v]
    [] type = "date" ->
         IF v.t = "date" THEN [err |-> FALSE, value |-> v]
         ELSE IF v.t = "string" /\ v.s \in DateStrings
           THEN [err |-> FALSE, value |-> DateOf(v.s)]
         ELSE IF v.t = "number" THEN [err |-> FALSE, value |-> DateOf("epoch")]
         ELSE [err |-> TRUE, value |-> v]

\* JoiItem that ignores the default of a missing key.
JoiItemNoDefault(c, obj) ==
  IF ~Has(obj, c.key)
  THEN [err |-> c.required, present |-> FALSE, value |-> Undefined]
  ELSE LET v == obj[c.key]
           b == JoiBase(c.type, v)
       IN IF v \in c.valids THEN [err |-> FALSE, present |-> TRUE, value |-> v]
          ELSE IF b.err THEN [err |-> TRUE, present |-> TRUE, value |-> v]
          ELSE IF b.value \in c.valids
            THEN [err |-> FALSE, present |-> TRUE, value |-> b.value]
          ELSE [err |-> c.only, present |-> TRUE, value |-> b.value]

\* One child of an object schema against the object's value for its key:
\* presence, then the explicitly allowed values, then the base type (with
\* conversion), then the only-flag.  [err, present, value].
JoiItem(c, obj) ==
  IF ~Has(obj, c.key)
  THEN IF c.required THEN [err |-> TRUE, present |-> FALSE, value |-> Undefined]
       ELSE [err |-> FALSE, present |-> c.def # Undefined, value |-> c.def]
  ELSE LET v == obj[c.key]
           b == JoiBase(c.type, v)
       IN IF v \in c.valids THEN [err |-> FALSE, present |-> TRUE, value |-> v]
          ELSE IF b.err THEN [err |-> TRUE, present |-> TRUE, value |-> v]
          ELSE IF b.value \in c.valids
            THEN [err |-> FALSE, present |-> TRUE, value |-> b.value]
          ELSE [err |-> c.only, present |-> TRUE, value |-> b.value]

\* Attribute names in the order unknown keys are reported.
KeyOrder ==
  << "id", "firstName", "lastName", "createdAt", "updatedAt", "nick",
     "passwordDigest", "customColumn" >>
MinOf(S) == CHOOSE i \in S : \A j \in S : i <= j

\* Joi.validate(obj, schema) with the default options (convert, abortEarly,
\* unknown keys not allowed): [error, path, value].  The children are checked
\* in schema order, each writing its converted or default value into a copy
\* of obj, up to the first child that fails; then the first unknown key is
\* an error.  value is that copy, also when there is an error.
JoiValidate(obj, schema) ==
  LET bad == {i \in 1..Len(schema) : JoiItem(schema[i], obj).err}
      unknown == {i \in 1..Len(KeyOrder) :
                    KeyOrder[i] \in (DOMAIN obj) \ SchemaKeys(schema)}
      done == IF bad # {} THEN 1..(MinOf(bad) - 1) ELSE 1..Len(schema)
      out == {i \in done : JoiItem(schema[i], obj).present}
      at(k) == CHOOSE i \in out : schema[i].key = k
      target == Extend(obj, [k \in {schema[i].key : i \in out} |->
                               JoiItem(schema[at(k)], obj).value])
  IN IF bad # {}
     THEN [error |-> TRUE, path |-> schema[MinOf(bad)].key, value |-> target]
     ELSE IF unknown # {}
     THEN [error |-> TRUE, path |-> KeyOrder[MinOf(unknown)], value |-> target]
     ELSE [error |-> FALSE, path |-> "", value |-> target]

\* ------------------------------------------------------------ validateSave
\* ValidationMode without the test of model.isNew().
ValidationModeByOptions(model, options) ==
  IF options.given /\ (options.method = "update" \/ options.patch)
  THEN "partial" ELSE "full"

\* validateSave(model, attrs, options) on an instance (self: its attributes,
\* schema and table name).  model: [given, isNew]; attrs: [given, map];
\* options: [given, method, patch].  Partial when the model argument is given
\* and not new, or the options are given and say method 'update' or patch
\* true; full otherwise.
ValidationMode(model, options) ==
  IF (model.given /\ ~model.isNew)
       \/ (options.given /\ (options.method = "update" \/ options.patch))
  THEN "partial" ELSE "full"

\* validateSave that leaves the table name off the error.
validateSaveNoTable(self, model, attrs, options) ==
  LET mode == ValidationMode(model, options)
      optional == SchemaKeys(self.validate) \ DOMAIN attrs.map
      validation ==
        IF mode = "partial"
        THEN JoiValidate(attrs.map,
               IF optional # {} THEN optionalKeys(self.validate, optional)
               ELSE self.validate)
        ELSE JoiValidate(self.attributes, self.validate)
  IN IF mode = "partial" /\ ~attrs.given
     THEN [mode |-> mode, threw |-> TRUE, value |-> Empty,
           error |-> [name |-> "TypeError", path |-> "", tableName |-> ""]]
     ELSE [mode |-> mode, threw |-> validation.error, value |-> validation.value,
           error |-> IF validation.error
                     THEN [name |-> "ValidationError", path |-> validation.path,
                           tableName |-> ""]
                     ELSE [name |-> "", path |-> "", tableName |-> ""]]

NoError == [name |-> "", path |-> "", tableName |-> ""]

\* The result of the call: the mode, whether it threw and what, and
\* validation.value.
validateSave(self, model, attrs, options) ==
  LET mode == ValidationMode(model, options)
      schemaKeys == SchemaKeys(self.validate)
      presentKeys == DOMAIN attrs.map
      optional == schemaKeys \ presentKeys
      validation ==
        IF mode = "partial"
        THEN JoiValidate(attrs.map,
               IF optional # {} THEN optionalKeys(self.validate, optional)
               ELSE self.validate)
        ELSE JoiValidate(self.attributes, self.validate)
  IN IF mode = "partial" /\ ~attrs.given
     THEN [mode |-> mode, threw |-> TRUE, value |-> Empty,
           error |-> [name |-> "TypeError", path |-> "", tableName |-> ""]]
     ELSE IF validation.error
     THEN [mode |-> mode, threw |-> TRUE, value |-> validation.value,
           error |-> [name |-> "ValidationError", path |-> validation.path,
                      tableName |-> self.tableName]]
     ELSE [mode |-> mode, threw |-> FALSE, value |-> validation.value,
           error |-> NoError]

\* The end of validateSave with the value set before the error is looked at.
CommittedUnchecked(attrs, r) == Extend(attrs, r.value)

\* The end of validateSave: with an error it throws and sets nothing, without
\* one it sets validation.value on the model.
Committed(attrs, r) == IF r.threw THEN attrs ELSE Extend(attrs, r.value)

\* ------------------------------------------------------------------- state
VARIABLES
  hasSecurePassword,  \* class: False, True or Str(column)
  classRounds,        \* class: bcryptRounds, Undefined when not declared
  classValidate,      \* class: the declared schema, << >> when none
  pc,                 \* "unbuilt", "threw" (constructor), "idle", "saving", "hashing"
  hooks,              \* the instance's "saving" handlers, in registration order
  validate,           \* the instance's schema after the constructor
  attributes,         \* the instance's attribute mapping
  privatePassword,    \* the staged plaintext (this.__password)
  saveAttrs,          \* save in flight: the attrs handed to the handlers
  saveOptions,        \* save in flight: the options handed to the handlers
  hookIx,             \* save in flight: index of the next handler
  hashed,             \* save in flight: what the awaited hash settles to
  outcome,            \* the save begun last: [state, error]; "none" once the
                      \* model is touched again
  store,              \* the table: id -> row
  nonce,              \* number of salts generated so far
  before,             \* when the save began: attributes, staged password, store,
                      \* and the attrs of the save
  log,                \* what the save in flight (or last finished) has done
  last,               \* the last validateSave call
  auth,               \* the last authenticate call since the last save began,
                      \* and what it settled to
  calls,              \* the calls of the class's static operations (upsert, findOrCreate),
                      \* one per caller: where each is and what it has done
  count               \* [saves, ops]: saves begun; sets and direct calls made

vars ==
  << hasSecurePassword, classRounds, classValidate, pc, hooks, validate,
     attributes, privatePassword, saveAttrs, saveOptions, hookIx, hashed,
     outcome,
     store, nonce, before, log, last, auth, calls, count >>

class == << hasSecurePassword, classRounds, classValidate >>
inflight == << saveAttrs, saveOptions, hookIx, hashed >>

tableName == "test_table"
Now == DateOf("now")

\* isNew(): the instance has no id.
isNew(attrs) == ~Has(attrs, "id") \/ attrs["id"] = Null

NoOptions == [given |-> FALSE, method |-> "", patch |-> FALSE, require |-> TRUE]
NoLast ==
  [called |-> FALSE, direct |-> FALSE, modelGiven |-> FALSE, wasNew |-> FALSE,
   options |-> NoOptions, asked |-> NoOptions, attrs |-> Empty,
   input |-> Empty, result |-> [mode |-> "", threw |-> FALSE, value |-> Empty,
                               error |-> NoError]]
NoOutcome == [state |-> "none", error |-> NoError]
NoAuth ==
  [called |-> FALSE, at |-> 0, candidate |-> Undefined, digest |-> Undefined,
   resolved |-> FALSE, error |-> ""]

\* A call of a static operation that has not begun.
NoCall ==
  [op |-> "none", pc |-> "idle", select |-> Empty, update |-> Empty,
   defaults |-> Empty, begun |-> Empty, found |-> FALSE, model |-> Empty,
   attributes |-> Empty, attrs |-> Empty,
   options |-> NoOptions, mode |-> "", seen |-> Empty, before |-> Empty,
   after |-> Empty,
   state |-> "none", error |-> NoError]
Callers == 1..MaxCallers
NoCalls == [c \in Callers |-> NoCall]

\* ------------------------------------------------------------------ inputs
SecureOptions == {False, True, Str("customColumn")}
RoundsOptions == {Undefined, Num(5), Num(0), Num(-1)}
ValidateOptions == { << >>, CrudSchema, ExtendedSchema, IdSchema }

\* Attribute mappings given to the constructor.
InitialAttrs ==
  { Empty,
    "firstName" :> Str("hello"),
    ("id" :> Num(1)) @@ ("firstName" :> Str("hello")) }

\* Values staged as password.
StagedValues ==
  {Undefined, Null, Str(""), Str("  "), Str("testing"), Num(123)}

\* Attribute mappings given to save and to validateSave.
Payloads ==
  { Empty,
    "firstName" :> Str("goodbye"),
    "firstName" :> Str("notanoption"),
    "createdAt" :> Str("2020-01-01"),
    "nick" :> Str("x") }

\* Those given to a model without schema.
PlainPayloads == { Empty }

\* Values given as password in the payload of a save.
SavedPasswords == { Str("testing") }

\* Options given to save: method, patch, require.
SaveOptions ==
  { [given |-> TRUE, method |-> "", patch |-> FALSE, require |-> TRUE],
    [given |-> TRUE, method |-> "insert", patch |-> FALSE, require |-> TRUE],
    [given |-> TRUE, method |-> "update", patch |-> FALSE, require |-> FALSE],
    [given |-> TRUE, method |-> "", patch |-> TRUE, require |-> FALSE] }

Init ==
  /\ hasSecurePassword \in SecureOptions
  /\ classRounds \in RoundsOptions
  /\ classRounds # Undefined => hasSecurePassword = True
  /\ classValidate \in ValidateOptions
  /\ classValidate = IdSchema => hasSecurePassword = False
  /\ pc = "unbuilt"
  /\ hooks = << >>
  /\ validate = classValidate
  /\ attributes = Empty
  /\ privatePassword = Undefined
  /\ saveAttrs = Empty
  /\ saveOptions = NoOptions
  /\ hookIx = 0
  /\ hashed = [rejected |-> FALSE, value |-> Undefined]
  /\ outcome = NoOutcome
  /\ store = Empty
  /\ nonce = 0
  /\ before = [attributes |-> Empty, privatePassword |-> Undefined,
               store |-> Empty, attrs |-> Empty]
  /\ log = << >>
  /\ last = NoLast
  /\ auth = NoAuth
  /\ calls = NoCalls
  /\ count = [saves |-> 0, ops |-> 0]

\* --------------------------------------------------------------- constructor
\* set that treats the virtual like any attribute.
nonVirtualsAll(secure, map) == map

\* set(object) under the virtuals plugin: a key that names a virtual (password,
\* on a model with secure password) goes to the virtual's setter; the other
\* keys are set as attributes.
nonVirtuals(secure, map) ==
  [k \in (DOMAIN map) \ (IF secure THEN {"password"} ELSE {}) |-> map[k]]

\* new Model(attrs) with attrs.password = password (Undefined: not given).
\* enablePasswordHashing registers the hashing handler; then, with a schema,
\* the schema is extended and validateSave is registered; then the base
\* constructor sets the attributes (the virtual password is staged, never
\* stored).  With both a schema and a secure password, the statement that adds
\* the digest key names the undeclared identifier Joe and throws.
Construct(attrs, password) ==
  /\ pc = "unbuilt"
  /\ password # Undefined => Truthy(hasSecurePassword)
  /\ LET secure == Truthy(hasSecurePassword)
         schema == classValidate # << >>
         h1 == IF secure THEN << "hashPassword" >> ELSE << >>
     IN IF secure /\ schema
        THEN /\ pc' = "threw"
             /\ hooks' = h1
             /\ UNCHANGED << validate, attributes, privatePassword >>
        ELSE /\ pc' = "idle"
             /\ hooks' = h1 \o (IF schema THEN << "validateSave" >> ELSE << >>)
             /\ validate' = IF schema THEN keys(classValidate, baseValidation)
                            ELSE << >>
             /\ attributes' =
                  nonVirtuals(secure,
                    IF password = Undefined THEN attrs
                    ELSE Extend(attrs, "password" :> password))
             /\ privatePassword' = password
  /\ UNCHANGED << class, auth, calls, inflight, outcome, store, nonce, before, log, last, count >>

\* model.get(key): the virtual password reads as undefined; an attribute the
\* model does not hold reads as undefined.
get(key) ==
  IF key = "password" /\ Truthy(hasSecurePassword) THEN Undefined
  ELSE IF Has(attributes, key) THEN attributes[key] ELSE Undefined

\* ----------------------------------------------------------- set, on, call
\* Absent: the argument (or key) is not given at all.
Absent == [t |-> "absent", s |-> "", n |-> 0, salt |-> 0]

\* model.set(key, value) for an attribute.
SetInputs == { << "firstName", Num(1) >>, << "lastName", Null >> }

Set(key, value) ==
  /\ pc = "idle"
  /\ count.ops < MaxOps
  /\ attributes' = Extend(attributes, key :> value)
  /\ count' = [count EXCEPT !.ops = @ + 1]
  /\ outcome' = NoOutcome
  /\ UNCHANGED << class, auth, calls, pc, hooks, validate, privatePassword, inflight, store,
                  nonce, before, log, last >>

\* model.set('password', value): the virtual setter stages the value.
setPassword(value) ==
  /\ pc = "idle"
  /\ Truthy(hasSecurePassword)
  /\ count.ops < MaxOps
  /\ privatePassword' = value
  /\ count' = [count EXCEPT !.ops = @ + 1]
  /\ outcome' = NoOutcome
  /\ UNCHANGED << class, auth, calls, pc, hooks, validate, attributes, inflight, store, nonce,
                  before, log, last >>

\* model.on('saving', handler) with a handler that throws: registered after
\* the handlers of the constructor.
OnSaving ==
  /\ pc = "idle"
  /\ count.saves = 0
  /\ \A i \in 1..Len(hooks) : hooks[i] # "userThrow"
  /\ hooks' = Append(hooks, "userThrow")
  /\ UNCHANGED << class, auth, calls, pc, validate, attributes, privatePassword, inflight,
                  outcome, store, nonce, before, log, last, count >>

Self == [attributes |-> attributes, validate |-> validate, tableName |-> tableName]

Called(direct, model, attrs, options, asked, r) ==
  [called |-> TRUE, direct |-> direct, modelGiven |-> model.given,
   wasNew |-> isNew(attributes), options |-> options, asked |-> asked,
   attrs |-> attrs.map, input |-> attributes, result |-> r]

\* A direct call model.validateSave(model?, attrs?, options?).
CallArgs ==
  { [given |-> FALSE, map |-> Empty],
    [given |-> TRUE, map |-> "lastName" :> Str("x")],
    [given |-> TRUE, map |-> "firstName" :> Str("notanoption")] }
CallOptions ==
  { NoOptions,
    [given |-> TRUE, method |-> "update", patch |-> FALSE, require |-> TRUE] }

CallValidateSave(modelGiven, attrs, options) ==
  /\ pc = "idle"
  /\ validate # << >>
  /\ count.ops < MaxOps
  /\ LET model == [given |-> modelGiven, isNew |-> isNew(attributes)]
         r == validateSave(Self, model, attrs, options)
     IN /\ attributes' = Committed(attributes, r)
        /\ last' = Called(TRUE, model, attrs, options, options, r)
  /\ count' = [count EXCEPT !.ops = @ + 1]
  /\ outcome' = NoOutcome
  /\ UNCHANGED << class, auth, calls, pc, hooks, validate, privatePassword, inflight, store,
                  nonce, before, log >>

\* ------------------------------------------------------------ authenticate
\* authenticate that accepts any candidate when a digest is stored.
authenticateAnyCandidate(candidate, digest) ==
  IF candidate = Undefined \/ digest = Undefined \/ digest = Null
  THEN [resolved |-> FALSE, error |-> "PasswordMismatchError"]
  ELSE [resolved |-> TRUE, error |-> ""]

\* The verification primitive: the candidate is the plaintext the digest was
\* made of.
compare(candidate, digest) ==
  IsString(candidate) /\ IsDigest(digest) /\ candidate.s = digest.s

\* authenticate(candidate) against the model's stored digest: a mismatch
\* error when no candidate is supplied, when there is no stored digest, or
\* when the candidate does not match; the model otherwise.
authenticate(candidate, digest) ==
  IF candidate = Undefined \/ digest = Undefined \/ digest = Null
  THEN [resolved |-> FALSE, error |-> "PasswordMismatchError"]
  ELSE IF compare(candidate, digest) THEN [resolved |-> TRUE, error |-> ""]
  ELSE [resolved |-> FALSE, error |-> "PasswordMismatchError"]

\* Candidates given to authenticate (Undefined: none).
Candidates == { Undefined, Str("testing"), Str("invalid") }

Authenticate(candidate) ==
  /\ pc = "idle"
  /\ Truthy(hasSecurePassword)
  /\ count.ops < MaxOps
  /\ LET digest == get(passwordDigestField(hasSecurePassword))
         r == authenticate(candidate, digest)
     IN auth' = [called |-> TRUE, at |-> count.ops + 1, candidate |-> candidate,
                 digest |-> digest, resolved |-> r.resolved, error |-> r.error]
  /\ count' = [count EXCEPT !.ops = @ + 1]
  /\ UNCHANGED << class, calls, pc, hooks, validate, attributes,
                  privatePassword, inflight, outcome, store, nonce, before, log,
                  last >>

\* -------------------------------------------------------------------- save
\* saveMethod(options): 'update' for a patch, else the method asked for, else
\* 'insert' for a new record and 'update' for any other.
saveMethod(options, new) ==
  IF options.patch THEN "update"
  ELSE IF options.method # "" THEN options.method
  ELSE IF new THEN "insert" ELSE "update"

\* hasTimestamps: the timestamps a save adds, for the keys the caller did not
\* provide: updatedAt on every save, createdAt on an insert.
timestamp(method, attrs, payload) ==
  (IF Has(payload, "updatedAt") THEN Empty ELSE "updatedAt" :> Now)
    @@ (IF method = "insert" /\ ~Has(attrs, "createdAt")
        THEN "createdAt" :> Now ELSE Empty)

Finish(state, error) ==
  /\ pc' = "idle"
  /\ outcome' = [state |-> state, error |-> error]
  /\ saveAttrs' = Empty
  /\ saveOptions' = NoOptions
  /\ hookIx' = 0
  /\ hashed' = [rejected |-> FALSE, value |-> Undefined]

Failure(name) == [name |-> name, path |-> "", tableName |-> ""]

\* model.save(payload, options), with payload.password = password (Absent: the
\* payload has no password key): the payload is set on the model (a password
\* is staged), the timestamps are added, and the saving handlers are due.
SaveBegin(payload, password, options) ==
  /\ pc = "idle"
  /\ count.saves < MaxSaves
  /\ password # Absent => Truthy(hasSecurePassword)
  /\ validate = << >> => payload \in PlainPayloads
  /\ LET method == saveMethod(options, isNew(attributes))
         set == Extend(attributes,
                       nonVirtuals(Truthy(hasSecurePassword),
                         IF password = Absent THEN payload
                         ELSE Extend(payload, "password" :> password)))
         stamps == timestamp(method, set, payload)
     IN /\ attributes' = Extend(set, stamps)
        /\ saveAttrs' = Extend(payload, stamps)
        /\ saveOptions' = [options EXCEPT !.method = method]
        /\ last' = [NoLast EXCEPT !.asked = options]
  /\ privatePassword' = IF password = Absent THEN privatePassword ELSE password
  /\ before' = [attributes |-> attributes, privatePassword |-> privatePassword',
                store |-> store, attrs |-> saveAttrs']
  /\ pc' = "saving"
  /\ hookIx' = 1
  /\ log' = << >>
  /\ outcome' = [state |-> "pending", error |-> NoError]
  /\ count' = [count EXCEPT !.saves = @ + 1]
  /\ auth' = NoAuth
  /\ UNCHANGED << class, calls, hooks, validate, hashed, store, nonce >>

Due(name) == pc = "saving" /\ hookIx <= Len(hooks) /\ hooks[hookIx] = name

\* The hashing handler up to its await: it reads the staged value and calls
\* hash(value, bcryptRounds(model)); a salt is generated unless the value is
\* null or empty.
HashCall ==
  /\ Due("hashPassword")
  /\ LET value == privatePassword
         salted == value # Null /\ ~isEmpty(value)
     IN /\ nonce' = IF salted THEN nonce + 1 ELSE nonce
        /\ hashed' = hash(value, bcryptRounds(classRounds), nonce')
  /\ pc' = "hashing"
  /\ log' = Append(log, "hash.call")
  /\ UNCHANGED << class, auth, calls, hooks, validate, attributes, privatePassword, saveAttrs,
                  saveOptions, hookIx, outcome, store, before, last, count >>

\* The handler without the await: what is set is the pending promise.
Pending == [t |-> "promise", s |-> "", n |-> 0, salt |-> 0]
HashedUnawaited(attrs, field, result) == Extend(attrs, field :> Pending)

\* The hashing handler after its await: a rejected hash rejects the save at
\* the await; otherwise the password is unset and a result other than
\* undefined is set on the digest column.
Hashed(attrs, field, result) ==
  IF result # Undefined THEN Extend(attrs, field :> result) ELSE attrs

HashSettle ==
  /\ pc = "hashing"
  /\ IF hashed.rejected
     THEN /\ Finish("rejected", Failure("Error"))
          /\ log' = Append(log, "hash.rejected")
          /\ UNCHANGED << attributes, privatePassword >>
     ELSE /\ privatePassword' = Undefined
          /\ attributes' = Hashed(attributes,
                                  passwordDigestField(hasSecurePassword),
                                  hashed.value)
          /\ pc' = "saving"
          /\ hookIx' = hookIx + 1
          /\ log' = Append(log, "hash.done")
          /\ UNCHANGED << saveAttrs, saveOptions, hashed, outcome >>
  /\ UNCHANGED << class, auth, calls, hooks, validate, store, nonce, before, last, count >>

\* The validateSave handler: called with (model, attrs, options) of the save.
ValidateHook ==
  /\ Due("validateSave")
  /\ LET model == [given |-> TRUE, isNew |-> isNew(attributes)]
         attrs == [given |-> TRUE, map |-> saveAttrs]
         r == validateSave(Self, model, attrs, saveOptions)
     IN /\ last' = Called(FALSE, model, attrs, saveOptions, last.asked, r)
        /\ attributes' = Committed(attributes, r)
        /\ IF r.threw
           THEN Finish("rejected", r.error)
           ELSE /\ hookIx' = hookIx + 1
                /\ UNCHANGED << pc, saveAttrs, saveOptions, hashed, outcome >>
  /\ log' = Append(log, "validate")
  /\ UNCHANGED << class, auth, calls, hooks, validate, privatePassword, store, nonce, before,
                  count >>

\* A handler registered by the caller, which throws.
UserHook ==
  /\ Due("userThrow")
  /\ Finish("rejected", Failure("Error"))
  /\ log' = Append(log, "user.throw")
  /\ UNCHANGED << class, auth, calls, hooks, validate, attributes, privatePassword, store,
                  nonce, before, last, count >>

\* The write, after every handler has returned.  An insert writes the
\* attributes (a record without id gets the next id; an id already in the
\* table is refused); an update writes the attrs of a patch or else the
\* attributes to the row of the model's id (no id: refused; no such row:
\* refused unless require is false).
NextId == IF DOMAIN store = {} THEN 1
          ELSE (CHOOSE i \in DOMAIN store : \A j \in DOMAIN store : j <= i) + 1

Write ==
  /\ pc = "saving"
  /\ hookIx > Len(hooks)
  /\ LET new == isNew(attributes)
         id == IF new THEN NextId ELSE attributes["id"].n
         row == IF saveOptions.patch THEN saveAttrs ELSE attributes
     IN IF saveOptions.method = "insert"
        THEN IF id \in DOMAIN store
             THEN /\ Finish("rejected", Failure("DatabaseError"))
                  /\ UNCHANGED << attributes, store, log >>
             ELSE /\ attributes' = Extend(attributes, "id" :> Num(id))
                  /\ store' = (id :> attributes') @@ store
                  /\ log' = Append(log, "write")
                  /\ Finish("resolved", NoError)
        ELSE IF new
             THEN /\ Finish("rejected", Failure("Error"))
                  /\ UNCHANGED << attributes, store, log >>
        ELSE IF id \notin DOMAIN store
             THEN /\ Finish(IF saveOptions.require THEN "rejected" ELSE "resolved",
                            IF saveOptions.require
                            THEN Failure("NoRowsUpdatedError") ELSE NoError)
                  /\ UNCHANGED << attributes, store, log >>
        ELSE /\ store' = [store EXCEPT ![id] = Extend(@, row)]
             /\ log' = Append(log, "write")
             /\ Finish("resolved", NoError)
             /\ UNCHANGED attributes
  /\ UNCHANGED << class, auth, calls, hooks, validate, privatePassword, nonce, before, last,
                  count >>

Next ==
  \/ \E attrs \in InitialAttrs, password \in SavedPasswords \cup {Undefined} :
       Construct(attrs, password)
  \/ \E kv \in SetInputs : Set(kv[1], kv[2])
  \/ \E value \in StagedValues : setPassword(value)
  \/ OnSaving
  \/ \E candidate \in Candidates : Authenticate(candidate)
  \/ \E modelGiven \in BOOLEAN, attrs \in CallArgs, options \in CallOptions :
       CallValidateSave(modelGiven, attrs, options)
  \/ \E payload \in Payloads, password \in SavedPasswords \cup {Absent},
        options \in SaveOptions :
       SaveBegin(payload, password, options)
  \/ HashCall
  \/ HashSettle
  \/ ValidateHook
  \/ UserHook
  \/ Write

Spec == Init /\ [][Next]_vars

\* ------------------------------------------------------- static operations
\* The class's static operations work on instances of their own, made by
\* forge: they are followed here, several callers at a time, on a class
\* without secure password, each call through its fetch and its save.
\* validate holds the schema that the constructor gives every instance.
instance ==
  << pc, hooks, validate, attributes, privatePassword, saveAttrs, saveOptions,
     hookIx, hashed, outcome, nonce, before, log, last, auth, count >>

\* The rows that a where clause made of the query selects.
Matching(query) ==
  {id \in DOMAIN store :
     \A k \in DOMAIN query : Has(store[id], k) /\ store[id][k] = query[k]}

\* upsert(selectData, updateData): the pairs given, and the records the table
\* holds when the calls begin.
UpsertInputs ==
  { << "lastName" :> Str("upsert"), "lastName" :> Str("success") >>,
    << ("firstName" :> Str("goodbye")) @@ ("lastName" :> Str("update")),
       "lastName" :> Str("updated") >>,
    << ("id" :> Num(0)) @@ ("firstName" :> Str("goodbye"))
         @@ ("lastName" :> Str("update")),
       "lastName" :> Str("updated") >>,
    << "lastName" :> Str("x"), "lastName" :> Str("y") >>,
    << "lastName" :> Str("upsert"), "firstName" :> Str("notanoption") >>,
    << ("id" :> Num(0)) @@ ("lastName" :> Str("update")),
       "lastName" :> Str("updated") >> }
Tables ==
  { Empty,
    1 :> [id |-> Num(1), firstName |-> Str("hello"), lastName |-> Str("upsert"),
          createdAt |-> DateOf("then"), updatedAt |-> DateOf("then")] }
CrudValidateOptions == { << >>, CrudSchema, ExtendedSchema }

\* findOrCreate(data, options): the data and the options.defaults given (no
\* defaults: the empty mapping, which extend treats as it treats undefined).
FindOrCreateInputs ==
  { << "id" :> Num(1), "lastName" :> Str("world") >>,
    << "lastName" :> Str("x"), "firstName" :> Str("hello") >>,
    << ("firstName" :> Str("hello")) @@ ("lastName" :> Str("x")), Empty >>,
    << "firstName" :> Str("goodbye"),
       ("firstName" :> Str("hello")) @@ ("lastName" :> Str("y")) >> }

InitCrud ==
  /\ hasSecurePassword = False
  /\ classRounds = Undefined
  /\ classValidate \in CrudValidateOptions
  /\ store \in Tables
  /\ calls = NoCalls
  /\ pc = "unbuilt"
  /\ hooks = << >>
  /\ validate = IF classValidate = << >> THEN << >>
                ELSE keys(classValidate, baseValidation)
  /\ attributes = Empty
  /\ privatePassword = Undefined
  /\ saveAttrs = Empty
  /\ saveOptions = NoOptions
  /\ hookIx = 0
  /\ hashed = [rejected |-> FALSE, value |-> Undefined]
  /\ outcome = NoOutcome
  /\ nonce = 0
  /\ before = [attributes |-> Empty, privatePassword |-> Undefined,
               store |-> Empty, attrs |-> Empty]
  /\ log = << >>
  /\ last = NoLast
  /\ auth = NoAuth
  /\ count = [saves |-> 0, ops |-> 0]

\* upsert is called: options = extend({require: false}, options), and
\* findOne(selectData, options) is begun.
UpsertBegin(c, selectData, updateData) ==
  /\ calls[c].pc = "idle"
  /\ calls' = [calls EXCEPT ![c] =
                 [NoCall EXCEPT !.op = "upsert", !.pc = "fetching",
                                !.select = selectData, !.update = updateData,
                                !.begun = store, !.state = "pending"]]
  /\ UNCHANGED << class, store, instance >>

\* findOne: forge(query).fetch(options) settles with the first matching
\* record as a model, or with null.
Fetch(c) ==
  /\ calls[c].pc = "fetching"
  /\ LET ids == Matching(calls[c].select)
     IN calls' = [calls EXCEPT ![c].pc = "then",
                               ![c].seen = store,
                               ![c].found = ids # {},
                               ![c].model = IF ids = {} THEN Empty
                                            ELSE store[MinOf(ids)]]
  /\ UNCHANGED << class, store, instance >>

\* findOrCreate is called: options = extend({require: false}, options), and
\* findOne(data, options) is begun.
FindOrCreateBegin(c, data, defaults) ==
  /\ calls[c].pc = "idle"
  /\ calls' = [calls EXCEPT ![c] =
                 [NoCall EXCEPT !.op = "findOrCreate", !.pc = "fetching",
                                !.select = data, !.defaults = defaults,
                                !.begun = store, !.state = "pending"]]
  /\ UNCHANGED << class, store, instance >>

\* The then of findOrCreate: the model found is the result, and nothing is
\* saved; or a model made of options.defaults overridden by data is created
\* with the options of the call, which name no method.  save adds the
\* timestamps; then the saving handlers are due.
FindOrCreateThen(c) ==
  /\ calls[c].pc = "then"
  /\ calls[c].op = "findOrCreate"
  /\ LET call == calls[c]
         attrs == Extend(call.defaults, call.select)
         options == [given |-> TRUE, method |-> "", patch |-> FALSE,
                     require |-> FALSE]
         method == saveMethod(options, isNew(attrs))
         stamps == timestamp(method, attrs, Empty)
     IN IF call.found
        THEN calls' = [calls EXCEPT ![c].pc = "done",
                                    ![c].state = "resolved",
                                    ![c].attributes = call.model,
                                    ![c].before = store,
                                    ![c].after = store]
        ELSE calls' = [calls EXCEPT ![c].pc = "saving",
                                    ![c].attributes = Extend(attrs, stamps),
                                    ![c].attrs = stamps,
                                    ![c].options =
                                      [options EXCEPT !.method = method]]
  /\ UNCHANGED << class, store, instance >>

\* The then of upsert: the model found is saved with updateData as a patch,
\* or a model made of selectData overridden by updateData is created with
\* method insert.  save sets the payload on the model and adds the
\* timestamps; then the saving handlers are due.
UpsertThen(c) ==
  /\ calls[c].pc = "then"
  /\ calls[c].op = "upsert"
  /\ LET call == calls[c]
         attrs == IF call.found THEN call.model
                  ELSE Extend(call.select, call.update)
         payload == IF call.found THEN call.update ELSE Empty
         options == IF call.found
                    THEN [given |-> TRUE, method |-> "update", patch |-> TRUE,
                          require |-> FALSE]
                    ELSE [given |-> TRUE, method |-> "insert", patch |-> FALSE,
                          require |-> FALSE]
         method == saveMethod(options, isNew(attrs))
         set == Extend(attrs, payload)
         stamps == timestamp(method, set, payload)
     IN calls' = [calls EXCEPT ![c].pc = "saving",
                               ![c].attributes = Extend(set, stamps),
                               ![c].attrs = Extend(payload, stamps),
                               ![c].options = [options EXCEPT !.method = method]]
  /\ UNCHANGED << class, store, instance >>

\* The saving handlers of the forged model: validateSave, when the class has
\* a schema.
SaveHook(c) ==
  /\ calls[c].pc = "saving"
  /\ IF validate = << >>
     THEN calls' = [calls EXCEPT ![c].pc = "writing"]
     ELSE \E r \in { validateSave(
                        [attributes |-> calls[c].attributes,
                         validate |-> validate, tableName |-> tableName],
                        [given |-> TRUE, isNew |-> isNew(calls[c].attributes)],
                        [given |-> TRUE, map |-> calls[c].attrs],
                        calls[c].options) } :
            calls' = [calls EXCEPT
                        ![c].pc = IF r.threw THEN "done" ELSE "writing",
                        ![c].mode = r.mode,
                        ![c].attributes = Committed(@, r),
                        ![c].state = IF r.threw THEN "rejected" ELSE @,
                        ![c].error = r.error,
                        ![c].before = store,
                        ![c].after = store]
  /\ UNCHANGED << class, store, instance >>

\* The write of the forged model's save, on the table as it is now.
SaveWrite(c) ==
  /\ calls[c].pc = "writing"
  /\ LET call == calls[c]
         new == isNew(call.attributes)
         id == IF new THEN NextId ELSE call.attributes["id"].n
         row == IF call.options.patch THEN call.attrs ELSE call.attributes
         settle(state, error, attrs, table) ==
           /\ store' = table
           /\ calls' = [calls EXCEPT ![c].pc = "done", ![c].state = state,
                                     ![c].error = error,
                                     ![c].attributes = attrs,
                                     ![c].before = store, ![c].after = table]
     IN IF call.options.method = "insert"
        THEN IF id \in DOMAIN store
             THEN settle("rejected", Failure("DatabaseError"), call.attributes,
                         store)
             ELSE settle("resolved", NoError,
                         Extend(call.attributes, "id" :> Num(id)),
                         (id :> Extend(call.attributes, "id" :> Num(id)))
                           @@ store)
        ELSE IF new
             THEN settle("rejected", Failure("Error"), call.attributes, store)
        ELSE IF id \notin DOMAIN store
             THEN IF call.options.require
                  THEN settle("rejected", Failure("NoRowsUpdatedError"),
                              call.attributes, store)
                  ELSE settle("resolved", NoError, call.attributes, store)
        ELSE settle("resolved", NoError, call.attributes,
                    [store EXCEPT ![id] = Extend(@, row)])
  /\ UNCHANGED << class, instance >>

NextCrud ==
  \/ \E c \in Callers, input \in UpsertInputs :
       UpsertBegin(c, input[1], input[2])
  \/ \E c \in Callers, input \in FindOrCreateInputs :
       FindOrCreateBegin(c, input[1], input[2])
  \/ \E c \in Callers : Fetch(c)
  \/ \E c \in Callers : FindOrCreateThen(c)
  \/ \E c \in Callers : UpsertThen(c)
  \/ \E c \in Callers : SaveHook(c)
  \/ \E c \in Callers : SaveWrite(c)

SpecCrud == InitCrud /\ [][NextCrud]_vars

\* ------------------------------------------------------------------ claims
Secure == Truthy(hasSecurePassword)
Field == passwordDigestField(hasSecurePassword)
Settled == outcome.state \in {"resolved", "rejected"}
Rejected == outcome.state = "rejected"
InLog(e) == \E i \in 1..Len(log) : log[i] = e
LastLog == IF log = << >> THEN "" ELSE log[Len(log)]
Marked(options) == options.given /\ (options.method = "update" \/ options.patch)

\* C1: a model with secure password and schema has the hashing handler and
\* then validateSave on its saving hook, and in every save the hashing handler
\* has completed before validateSave starts, so that the attributes validateSave
\* checks hold the digest of this save.
C1_HashBeforeValidate ==
  (Secure /\ classValidate # << >> /\ pc # "unbuilt") =>
    /\ hooks = << "hashPassword", "validateSave" >>
    /\ \A i \in 1..Len(log) :
         log[i] = "validate" => \E j \in 1..(i - 1) : log[j] = "hash.done"
    /\ (last.called /\ ~last.direct /\ IsString(before.privatePassword)
          /\ ~isEmpty(before.privatePassword)) =>
         (Has(last.input, Field) /\ IsDigest(last.input[Field])
            /\ last.input[Field].salt = nonce)

\* C2 as stated: validateSave chooses full mode exactly when the record is new
\* and the options are not marked method 'update' or patch true.
C2_FullIffNewAndUnmarked ==
  last.called =>
    (last.result.mode = "full" <=> (last.wasNew /\ ~Marked(last.options)))

\* C2 amended: as the handler of a save validateSave chooses full mode exactly
\* when the record is new and the caller's options are not marked method
\* 'update' or patch true; called without a model argument it does not look at
\* whether the record is new, and chooses full mode exactly when the options
\* are not so marked.
C2_ModeOfHandlerAndOfBareCall ==
  last.called =>
    /\ ~last.direct =>
         (last.result.mode = "full" <=> (last.wasNew /\ ~Marked(last.asked)))
    /\ (last.direct /\ ~last.modelGiven) =>
         (last.result.mode = "full" <=> ~Marked(last.options))
    /\ (last.direct /\ last.modelGiven) =>
         (last.result.mode = "full" <=> (last.wasNew /\ ~Marked(last.options)))

\* A stored record (not new) validated in full mode by a call without arguments.
C2_Witness ==
  /\ last.called /\ last.direct /\ ~last.modelGiven /\ ~last.options.given
  /\ ~last.wasNew
  /\ last.result.mode = "full" /\ ~last.result.threw

\* What a schema asks of a value, stated apart from Joi's procedure: the value
\* is one of those allowed explicitly, or (unless only those are allowed) it
\* is of the key's base type.
OfType(type, v) ==
  \/ type = "any"
  \/ type = "string" /\ v.t = "string" /\ v.s # ""
  \/ type = "date" /\ (v.t = "date" \/ v.t = "number"
                         \/ (v.t = "string" /\ v.s \in DateStrings))
Conforms(c, v) == v \in c.valids \/ (~c.only /\ OfType(c.type, v))
ChildOf(schema, k) == schema[CHOOSE i \in 1..Len(schema) : schema[i].key = k]
SchemaValid(obj, schema) ==
  /\ DOMAIN obj \subseteq SchemaKeys(schema)
  /\ \A i \in 1..Len(schema) :
       IF Has(obj, schema[i].key) THEN Conforms(schema[i], obj[schema[i].key])
       ELSE ~schema[i].required
MissingDefaults(obj, schema) ==
  [k \in {schema[i].key : i \in {j \in 1..Len(schema) :
             schema[j].def # Undefined /\ ~Has(obj, schema[j].key)}} |->
     ChildOf(schema, k).def]
AsDate(c, v) ==
  IF c.type # "date" \/ v \in c.valids \/ v.t = "date" THEN v
  ELSE IF v.t = "string" THEN DateOf(v.s) ELSE DateOf("epoch")
Converted(obj, schema) ==
  [k \in DOMAIN obj |-> AsDate(ChildOf(schema, k), obj[k])]
FullCall == last.called /\ last.result.mode = "full"
PartialCall == last.called /\ last.result.mode = "partial"
                 /\ last.result.error.name # "TypeError"

\* C3 as stated: a full-mode validation of attributes that satisfy the schema
\* raises no error and returns the input plus the defaults of the missing
\* optional fields.
C3_FullReturnsInputPlusDefaults ==
  (FullCall /\ SchemaValid(last.input, validate)) =>
    /\ ~last.result.threw
    /\ last.result.value = Extend(last.input, MissingDefaults(last.input, validate))

\* C3 amended: a full-mode validation of attributes that satisfy the schema
\* raises no error and returns the input, with the string and number values of
\* date fields converted to dates, plus the defaults of the missing optional
\* fields.
C3_FullReturnsConvertedPlusDefaults ==
  (FullCall /\ SchemaValid(last.input, validate)) =>
    /\ ~last.result.threw
    /\ last.result.value =
         Extend(Converted(last.input, validate),
                MissingDefaults(last.input, validate))

\* A full-mode validation that added a default and converted a date string.
C3_Witness ==
  /\ FullCall /\ SchemaValid(last.input, validate) /\ ~last.result.threw
  /\ ~Has(last.input, "lastName") /\ Has(last.result.value, "lastName")
  /\ last.result.value["lastName"] = Str("world")
  /\ Has(last.input, "createdAt") /\ last.input["createdAt"].t = "string"
  /\ last.result.value["createdAt"].t = "date"

\* C4: a partial-mode validation of a payload with a strict subset of the
\* schema's fields fails exactly when a supplied field violates its own
\* constraint; required fields that the payload lacks do not make it fail.
C4_PartialChecksSuppliedOnly ==
  (PartialCall /\ DOMAIN last.attrs \subseteq SchemaKeys(validate)
     /\ DOMAIN last.attrs # SchemaKeys(validate)) =>
    (last.result.threw <=>
       \E k \in DOMAIN last.attrs : ~Conforms(ChildOf(validate, k), last.attrs[k]))

\* A partial-mode validation that passed although the payload lacks the
\* required firstName.
C4_Witness ==
  /\ PartialCall /\ ~last.result.threw
  /\ DOMAIN last.attrs \subseteq SchemaKeys(validate)
  /\ \E i \in 1..Len(validate) :
       validate[i].required /\ ~Has(last.attrs, validate[i].key)

\* The fields of the validated object that break the schema.
Offending(obj, schema, mode) ==
  {k \in DOMAIN obj :
     k \notin SchemaKeys(schema) \/ ~Conforms(ChildOf(schema, k), obj[k])}
  \cup {k \in SchemaKeys(schema) :
          mode = "full" /\ ChildOf(schema, k).required /\ ~Has(obj, k)}

\* C5: a failed validation raises an error that names a violated field and
\* the model's table; a save it fails is rejected with that error and writes
\* nothing to the table.
C5_ValidationErrorAborts ==
  /\ (last.called /\ last.result.error.name = "ValidationError") =>
       /\ last.result.threw
       /\ last.result.error.tableName = tableName
       /\ last.result.error.path \in
            Offending(IF last.result.mode = "partial" THEN last.attrs
                      ELSE last.input, validate, last.result.mode)
  /\ (last.called /\ ~last.direct /\ last.result.threw) =>
       (pc = "idle" /\ outcome.state \in {"rejected", "none"})
  /\ (Rejected /\ outcome.error.name = "ValidationError") =>
       /\ outcome.error = last.result.error
       /\ pc = "idle"
       /\ store = before.store
       /\ ~InLog("write")

\* A save of 'notanoption' rejected with the field and the table named.
C5_Witness ==
  /\ Rejected /\ outcome.error.name = "ValidationError"
  /\ outcome.error.path = "firstName" /\ outcome.error.tableName = "test_table"
  /\ Has(last.attrs, "firstName") /\ last.attrs["firstName"] = Str("notanoption")
  /\ store = before.store

ValidationFailed == Rejected /\ outcome.error.name = "ValidationError"
HashingFailed == Rejected /\ LastLog = "hash.rejected"
StagedString == IsString(before.privatePassword) /\ ~isEmpty(before.privatePassword)
SameDigest(a, b) ==
  /\ Has(a, Field) <=> Has(b, Field)
  /\ Has(a, Field) => a[Field] = b[Field]

C7_StagedClearedAfterEverySave ==
  Settled => privatePassword = Undefined

\* C8: a save with a staged non-empty password that a later saving handler
\* fails leaves password reading undefined and the digest column holding the
\* string digest computed in that attempt.
C8_LaterFailureKeepsDigest ==
  (Rejected /\ LastLog = "user.throw" /\ StagedString) =>
    /\ get("password") = Undefined
    /\ ~Has(attributes, "password")
    /\ privatePassword = Undefined
    /\ IsDigest(get(Field))
    /\ get(Field).s = before.privatePassword.s
    /\ get(Field).salt = nonce

\* The save of a model built with password 'testing', failed by a handler
\* registered after construction.
C8_Witness ==
  /\ Rejected /\ LastLog = "user.throw" /\ StagedString
  /\ before.privatePassword = Str("testing")
  /\ ~Has(before.attributes, Field) /\ IsDigest(get(Field))

\* C9: a save whose staged password is undefined or the empty string does not
\* write the digest column: from its start on, the model's digest is the one it
\* had before (none, when it had none).
C9_EmptyPasswordKeepsDigest ==
  (Secure /\ outcome.state # "none"
     /\ (before.privatePassword = Undefined \/ before.privatePassword = Str(""))) =>
    SameDigest(attributes, before.attributes)

\* A model with a digest saved again with the empty string staged.
C9_Witness ==
  /\ Secure /\ outcome.state = "resolved" /\ InLog("hash.done")
  /\ before.privatePassword = Str("")
  /\ Has(before.attributes, Field) /\ IsDigest(before.attributes[Field])
  /\ attributes[Field] = before.attributes[Field]

\* C10: a save whose staged password is a non-empty string, blank ones
\* included, hashes it with a new salt and writes the digest, a string, into
\* the digest column; the digest differs from the one held before.
C10_NonEmptyPasswordWritesNewDigest ==
  (Secure /\ Settled /\ StagedString) =>
    /\ InLog("hash.done")
    /\ Has(attributes, Field)
    /\ IsDigest(attributes[Field])
    /\ attributes[Field].s = before.privatePassword.s
    /\ attributes[Field].salt = nonce
    /\ Has(before.attributes, Field) => attributes[Field] # before.attributes[Field]

\* A model with a digest saved again with a blank password staged.
C10_Witness ==
  /\ Secure /\ outcome.state = "resolved"
  /\ before.privatePassword = Str("  ")
  /\ Has(before.attributes, Field) /\ IsDigest(before.attributes[Field])
  /\ IsDigest(attributes[Field])
  /\ attributes[Field] # before.attributes[Field]

\* C11: a save of a model that holds a digest, with the password staged as
\* null, sets the digest column of the model to null (the hashing handler
\* generates no salt and sets null), whatever becomes of the save afterwards.
C11_NullPasswordNullsDigest ==
  (Secure /\ Settled /\ before.privatePassword = Null) =>
    /\ InLog("hash.done")
    /\ Has(attributes, Field)
    /\ attributes[Field] = Null
    /\ get(Field) = Null
    /\ privatePassword = Undefined

\* A model with a string digest saved with password null: the digest is null
\* on the model and in the row written.
C11_Witness ==
  /\ Secure /\ outcome.state = "resolved" /\ InLog("write")
  /\ before.privatePassword = Null
  /\ Has(before.attributes, Field) /\ IsDigest(before.attributes[Field])
  /\ attributes[Field] = Null
  /\ store[attributes["id"].n][Field] = Null

\* Values that are staged as plaintext passwords.
Plaintext(v) ==
  v.salt = 0 /\ v \in (StagedValues \cup SavedPasswords) \ {Undefined, Null}

\* C12: in every state of a model with secure password (after construction
\* with a password, after set, during and after every save) the attributes
\* have no key password, reading password gives undefined, and no row of the
\* table has a password key or holds a plaintext.
C12_PlaintextNeverAttribute ==
  (Secure /\ pc # "unbuilt") =>
    /\ ~Has(attributes, "password")
    /\ get("password") = Undefined
    /\ \A id \in DOMAIN store :
         /\ ~Has(store[id], "password")
         /\ \A k \in DOMAIN store[id] : ~Plaintext(store[id][k])

\* A model built with password 'testing' and saved: the row written holds the
\* digest of 'testing' and neither the key nor the plaintext.
C12_Witness ==
  /\ Secure /\ outcome.state = "resolved" /\ InLog("write")
  /\ before.privatePassword = Str("testing")
  /\ \E id \in DOMAIN store :
       /\ Has(store[id], Field) /\ IsDigest(store[id][Field])
       /\ store[id][Field].s = "testing"
       /\ ~Has(store[id], "password")
  /\ ~Has(attributes, "password")

\* The column the claim names: the string given as hasSecurePassword, or
\* passwordDigest.
Column ==
  IF hasSecurePassword.t = "string" THEN hasSecurePassword.s ELSE "passwordDigest"
DigestKeys(map) == {k \in DOMAIN map : IsDigest(map[k])}

\* C13: the digest column is the name given by hasSecurePassword when that is
\* a string and passwordDigest otherwise; a save with a staged non-empty
\* password writes the digest into that column and no other, so a model with
\* a custom column never holds or writes passwordDigest.
C13_DigestInConfiguredColumnOnly ==
  (Secure /\ pc # "unbuilt") =>
    /\ (Settled /\ StagedString) =>
         (Has(attributes, Column) /\ IsDigest(attributes[Column])
            /\ attributes[Column].salt = nonce)
    /\ DigestKeys(attributes) \subseteq {Column}
    /\ \A id \in DOMAIN store : DigestKeys(store[id]) \subseteq {Column}
    /\ Column # "passwordDigest" =>
         /\ ~Has(attributes, "passwordDigest")
         /\ \A id \in DOMAIN store : ~Has(store[id], "passwordDigest")

\* A model with hasSecurePassword 'customColumn', built with password
\* 'testing' and saved: the digest is in customColumn, on the model and in
\* the row.
C13_Witness ==
  /\ hasSecurePassword = Str("customColumn")
  /\ outcome.state = "resolved" /\ InLog("write")
  /\ before.privatePassword = Str("testing")
  /\ IsDigest(attributes["customColumn"])
  /\ \E id \in DOMAIN store :
       Has(store[id], "customColumn") /\ IsDigest(store[id]["customColumn"])
  /\ ~Has(attributes, "passwordDigest")

\* C14 as stated: the work factor the hashing handler uses is a positive
\* integer, the class's bcryptRounds when that is a positive integer and 12 in
\* every other case, and the digest encodes exactly that work factor.
C14_WorkFactorPositiveOrDefault ==
  (Secure /\ pc # "unbuilt") =>
    LET expected == IF classRounds.t = "number" /\ classRounds.n > 0
                    THEN classRounds.n ELSE 12
    IN /\ bcryptRounds(classRounds) > 0
       /\ bcryptRounds(classRounds) = expected
       /\ (Settled /\ StagedString) =>
            (IsDigest(get(Field)) /\ get(Field).n = expected)

\* C15: authenticate(candidate) resolves with the model exactly when a
\* candidate is supplied, the model holds a stored digest, and the candidate
\* matches that digest; in every other case (no candidate, no match, no digest
\* because the record was not saved yet) it rejects with a PasswordMismatch
\* error; and the call changes nothing of the model or the table.
C15_AuthenticateExactMatchOnly ==
  /\ [](auth.called =>
         /\ auth.resolved <=>
              (auth.candidate # Undefined /\ IsDigest(auth.digest)
                 /\ auth.candidate.s = auth.digest.s)
         /\ ~auth.resolved => auth.error = "PasswordMismatchError"
         /\ auth.resolved => auth.error = "")
  /\ [][(auth'.called /\ auth' # auth) =>
         (attributes' = attributes /\ privatePassword' = privatePassword
            /\ store' = store /\ hooks' = hooks /\ validate' = validate)]_vars

\* Authentication with the password the stored digest was made of.
C15_Witness ==
  /\ auth.called /\ auth.resolved
  /\ auth.candidate = Str("testing") /\ IsDigest(auth.digest)
  /\ outcome.state = "resolved"

\* C16: when the hashing step of a save fails (bcrypt refuses a staged value
\* that is not a string), the save is rejected, no handler registered after
\* the hashing handler (validateSave, a handler of the caller) is run, nothing
\* is written to the table, and the digest column keeps what it held.
C16_HashingFailureAborts ==
  /\ (Secure /\ Settled /\ before.privatePassword.t = "number") =>
       InLog("hash.rejected")
  /\ InLog("hash.rejected") =>
       /\ pc = "idle"
       /\ outcome.state \in {"rejected", "none"}
       /\ outcome.state = "rejected" => outcome.error.name = "Error"
       /\ LastLog = "hash.rejected"
       /\ ~InLog("validate") /\ ~InLog("user.throw") /\ ~InLog("write")
       /\ store = before.store
       /\ SameDigest(attributes, before.attributes)

\* The save of a stored model that holds a digest, with 123 staged and a
\* handler registered after the hashing handler: rejected in the hashing step.
C16_Witness ==
  /\ Rejected /\ LastLog = "hash.rejected"
  /\ before.privatePassword = Num(123)
  /\ Has(before.attributes, Field) /\ IsDigest(before.attributes[Field])
  /\ attributes[Field] = before.attributes[Field]
  /\ store # Empty /\ store = before.store

\* C17 as stated: after a successful validation the model holds every key of
\* the validated value with that value, validateSave returns that value, and
\* the row written by the save holds these values, not the caller's input.
C17_ValidatedValuesHeldAndWritten ==
  /\ (pc = "saving" /\ LastLog = "validate") =>
       (~last.result.threw
          /\ \A k \in DOMAIN last.result.value :
               Has(attributes, k) /\ attributes[k] = last.result.value[k])
  /\ (outcome.state = "resolved" /\ InLog("validate") /\ InLog("write")) =>
       LET row == store[attributes["id"].n]
       IN \A k \in DOMAIN last.result.value :
            Has(row, k) /\ row[k] = last.result.value[k]

BaseKeys == {"id", "createdAt", "updatedAt"}
Optional(c) == ~c.required /\ c.def = Undefined /\ c.valids = {} /\ ~c.only

\* C18 as stated: the schema an instance validates against contains id,
\* createdAt and updatedAt, added as optional fields only where the declared
\* schema does not declare them (a declared constraint is kept), and, with
\* secure password, an optional digest field.
C18_BaseKeysAddedIfAbsent ==
  (classValidate # << >> /\ pc # "unbuilt") =>
    /\ pc # "threw"
    /\ \A k \in BaseKeys :
         /\ k \in SchemaKeys(validate)
         /\ IF k \in SchemaKeys(classValidate)
            THEN ChildOf(validate, k) = ChildOf(classValidate, k)
            ELSE Optional(ChildOf(validate, k))
    /\ \A k \in SchemaKeys(classValidate) \ BaseKeys :
         k \in SchemaKeys(validate)
           /\ ChildOf(validate, k) = ChildOf(classValidate, k)
    /\ Secure =>
         (Field \in SchemaKeys(validate) /\ Optional(ChildOf(validate, Field)))

\* C18, the part about the declared constraint alone, on the classes without
\* secure password: violated by the class that declares id.
C18_DeclaredBaseKeyKept ==
  (classValidate # << >> /\ pc = "idle" /\ ~Secure) =>
    \A k \in BaseKeys \cap SchemaKeys(classValidate) :
      ChildOf(validate, k) = ChildOf(classValidate, k)

WithoutKey(map, key) == [k \in (DOMAIN map) \ {key} |-> map[k]]

\* C19 as stated: an instance of a class with a schema and secure password
\* exists, its schema has the digest column (default or custom) as a key, and
\* a full-mode save of it with a staged non-empty password and attributes
\* that otherwise satisfy the schema passes validation with the digest set.
C19_DigestAcceptedBySchema ==
  (Secure /\ classValidate # << >> /\ pc # "unbuilt") =>
    /\ pc # "threw"
    /\ Field \in SchemaKeys(validate)
    /\ (last.called /\ ~last.direct /\ last.result.mode = "full"
          /\ StagedString /\ Has(last.input, Field)
          /\ SchemaValid(WithoutKey(last.input, Field), validate)) =>
         (~last.result.threw /\ IsDigest(last.result.value[Field]))

\* ------------------------------------------------- claims, static operations
Done(c, op) == calls[c].op = op /\ calls[c].pc = "done"
Fits(row, query) ==
  \A k \in DOMAIN query : Has(row, k) /\ row[k] = query[k]
Others(call, ids) ==
  \A j \in (DOMAIN call.before) \ ids :
    j \in DOMAIN call.after /\ call.after[j] = call.before[j]
DefaultKeys == {classValidate[i].key : i \in {j \in 1..Len(classValidate) :
                                               classValidate[j].def # Undefined}}

\* C20 as stated, read for the upserts that are not rejected: an upsert that
\* found no record matching selectData inserts exactly one record, which holds
\* selectData overridden by updateData (and besides that only id, timestamps
\* and schema defaults); one that found a record patches that record with
\* updateData (and a new updatedAt), its id and its other fields staying as
\* they were, and inserts nothing; a rejected upsert changes no record.
C20_UpsertInsertsOrPatches ==
  \A c \in Callers : Done(c, "upsert") =>
    LET call == calls[c]
        data == Extend(call.select, call.update)
    IN /\ call.state \in {"resolved", "rejected"}
       /\ call.found <=> \E j \in DOMAIN call.seen : Fits(call.seen[j], call.select)
       /\ call.found => (call.model \in {call.seen[j] : j \in DOMAIN call.seen}
                           /\ Fits(call.model, call.select))
       /\ call.state = "rejected" => call.after = call.before
       /\ (call.state = "resolved" /\ ~call.found) =>
            \E id \in (DOMAIN call.after) \ (DOMAIN call.before) :
              /\ DOMAIN call.after = (DOMAIN call.before) \cup {id}
              /\ Others(call, {})
              /\ Fits(call.after[id], data)
              /\ DOMAIN call.after[id] \subseteq
                   (DOMAIN data) \cup BaseKeys \cup DefaultKeys
              /\ call.attributes = call.after[id]
       /\ (call.state = "resolved" /\ call.found) =>
            LET id == call.model["id"].n
            IN /\ DOMAIN call.after = DOMAIN call.before
               /\ Others(call, {id})
               /\ call.after[id] =
                    Extend(call.before[id],
                           Extend(call.update, "updatedAt" :> Now))
               /\ call.after[id]["id"] = call.before[id]["id"]
               /\ call.attributes["id"] = call.model["id"]

\* C21 as stated, read for the calls that are not rejected: a findOrCreate
\* that found a record matching data resolves with that record as it is
\* stored, with no default applied, and writes nothing; one that found none
\* inserts exactly one record, which holds options.defaults overridden by
\* data (and besides that only id, timestamps and schema defaults), and
\* resolves with it; a rejected findOrCreate changes no record.
C21_FindOrCreateFindsOrInsertsOne ==
  \A c \in Callers : Done(c, "findOrCreate") =>
    LET call == calls[c]
        data == Extend(call.defaults, call.select)
    IN /\ call.state \in {"resolved", "rejected"}
       /\ call.found <=> \E j \in DOMAIN call.seen : Fits(call.seen[j], call.select)
       /\ call.found =>
            /\ call.state = "resolved"
            /\ call.attributes \in {call.seen[j] : j \in DOMAIN call.seen}
            /\ Fits(call.attributes, call.select)
            /\ call.after = call.before
       /\ call.state = "rejected" => call.after = call.before
       /\ (call.state = "resolved" /\ ~call.found) =>
            \E id \in (DOMAIN call.after) \ (DOMAIN call.before) :
              /\ DOMAIN call.after = (DOMAIN call.before) \cup {id}
              /\ Others(call, {})
              /\ Fits(call.after[id], data)
              /\ DOMAIN call.after[id] \subseteq
                   (DOMAIN data) \cup BaseKeys \cup DefaultKeys
              /\ call.attributes = call.after[id]

\* C22: a partial-mode validation leaves every attribute of the model that
\* the payload does not name at the value it had before validateSave, also
\* when the schema declares a default for a field that the payload omits.
C22_PartialKeepsOtherAttributes ==
  [][\A c \in Callers :
       (calls[c].pc = "saving" /\ calls'[c].pc # "saving"
          /\ calls'[c].mode = "partial") =>
         \A k \in (DOMAIN calls[c].attributes) \ (DOMAIN calls[c].attrs) :
           /\ Has(calls'[c].attributes, k)
           /\ calls'[c].attributes[k] = calls[c].attributes[k]]_vars

\* The fields the class's schema requires.
RequiredKeys ==
  {validate[i].key : i \in {j \in 1..Len(validate) : validate[j].required}}

\* C23: every save performed as an insert enforces the required fields of the
\* schema, also for data with an identifier assigned by the caller: a call
\* whose save had method insert and resolved has inserted a record that holds
\* every required field, and no record of the table lacks one.
C23_InsertEnforcesRequired ==
  /\ \A c \in Callers :
       (calls[c].pc = "done" /\ calls[c].options.method = "insert"
          /\ calls[c].state = "resolved") =>
         \A id \in (DOMAIN calls[c].after) \ (DOMAIN calls[c].before) :
           RequiredKeys \subseteq DOMAIN calls[c].after[id]
  /\ \A id \in DOMAIN store : RequiredKeys \subseteq DOMAIN store[id]

\* The records a finished call has inserted.
Inserted(call) == (DOMAIN call.after) \ (DOMAIN call.before)
NoMatch(table, query) == \A j \in DOMAIN table : ~Fits(table[j], query)

\* C24: of two findOrCreate calls, or two upsert calls, with the same select
\* data (which the update data leave as they are), each begun while the
\* table held no matching record and neither refused by the validation, at
\* most one inserts a record, and both resolve with the same record, in
\* whatever order their fetches and inserts ran.
C24_ConcurrentCallsInsertOnce ==
  \A c1, c2 \in Callers :
    (/\ c1 # c2
     /\ calls[c1].op \in {"findOrCreate", "upsert"}
     /\ calls[c2].op = calls[c1].op
     /\ calls[c1].select = calls[c2].select
     /\ Fits(Extend(calls[c1].select, calls[c1].update), calls[c1].select)
     /\ Fits(Extend(calls[c2].select, calls[c2].update), calls[c2].select)
     /\ calls[c1].pc = "done" /\ calls[c2].pc = "done"
     /\ NoMatch(calls[c1].begun, calls[c1].select)
     /\ NoMatch(calls[c2].begun, calls[c2].select)
     /\ calls[c1].error.name # "ValidationError"
     /\ calls[c2].error.name # "ValidationError") =>
      /\ Cardinality(Inserted(calls[c1]) \cup Inserted(calls[c2])) <= 1
      /\ calls[c1].state = "resolved" /\ calls[c2].state = "resolved"
      /\ calls[c1].attributes["id"] = calls[c2].attributes["id"]

====
